---- MODULE Spec2Model ----
(***************************************************************************)
(* A model of pywebodm (src/src/pywebodm/api.py, utils.py): the WebODM      *)
(* client with its lazily refreshed token and its HTTP session, and the    *)
(* Task / Project views over a JSON mapping.                               *)
(*                                                                         *)
(* The remote service is the environment: every request is answered with  *)
(* a status and a body drawn from small sets.  The wall clock is the       *)
(* variable now, advanced by Tick.                                         *)
(***************************************************************************)
EXTENDS Integers, FiniteSets, Sequences, TLC

VARIABLES
    _token,             \* WebODM._token
    _token_datetime,    \* WebODM._token_datetime, in seconds
    _token_expiration,  \* WebODM._token_expiration, in seconds
    _session,           \* WebODM._session: Session or None
    now,                \* datetime.now(timezone.utc), in seconds
    ticks,              \* number of clock advances so far
    scope,              \* position of the caller relative to a with-block
    closeCalled,        \* close() has been called at least once
    last,               \* what the last client call did and returned
    _data,              \* the JSON mapping a Task / Project view wraps
    got                 \* what the last accessor call on the view returned

vars == <<_token, _token_datetime, _token_expiration, _session, now, ticks,
          scope, closeCalled, last, _data, got>>

clientVars == <<_token, _token_datetime, _token_expiration, _session, now,
                ticks, scope, closeCalled, last>>

viewVars == <<_data, got>>

---------------------------------------------------------------------------
(* Bounds and environment                                                  *)

\* The clock is advanced at most MaxTicks times.
MaxTicks == 2

\* Clock advances, in seconds.
Steps == {100, 21501}

\* Default of the token_expiration parameter of WebODM.__init__.
DefaultTokenExpiration == 21600

\* Values of token_expiration the client is constructed with.
TokenExpirations == {DefaultTokenExpiration, 200}

\* Tokens the auth endpoint hands out.
ServerTokens == {"t1", "t2"}

\* A key that a JSON object does not have.
NoKey == "<absent>"

\* Python's None, as the value of _session after close().
None == "None"
Session == "Session"

\* Response bodies: not JSON at all, or a JSON object with or without the
\* keys the client reads ("token", "success").
NotJson == [json |-> FALSE, token |-> NoKey, success |-> NoKey]
Object(token, success) == [json |-> TRUE, token |-> token, success |-> success]

\* Answers of POST /api/token-auth/: 200 with a body that holds a token or
\* does not, or another status (whose body the client never reads).
AuthResponses ==
    {[status |-> 200, body |-> b] :
        b \in {NotJson, Object(NoKey, NoKey)}
              \cup {Object(t, NoKey) : t \in ServerTokens}}
    \cup {[status |-> 201, body |-> Object(t, NoKey)] : t \in {"t1"}}
    \cup {[status |-> 403, body |-> Object(NoKey, NoKey)]}

\* Statuses the project and task endpoints answer with.
Statuses == {200, 201, 204, 403}

\* Answers to an operation that reads the body only under status `success`:
\* that status with each of `bodies`, and every other status (with a body
\* that is never read).
Responses(success, bodies) ==
    {[status |-> success, body |-> b] : b \in bodies}
    \cup {[status |-> s, body |-> Object(NoKey, NoKey)] :
            s \in Statuses \ {success}}

\* Bodies of an answer that should hold a project, a task or a list.
ViewBodies == {NotJson, Object(NoKey, NoKey)}

\* Bodies of an answer to the removal of a task.
RemoveBodies ==
    {NotJson, Object(NoKey, NoKey), Object(NoKey, "true"),
     Object(NoKey, "false")}

---------------------------------------------------------------------------
(* WebODM: token handling                                                  *)

\* The record of a call that has not happened.
Idle ==
    [op |-> "none", raised |-> FALSE, exc |-> "", ret |-> "",
     refreshCalls |-> 0, authPosts |-> 0, authStatus |-> 0, authToken |-> "",
     requests |-> 0, hdr |-> "", status |-> 0, success |-> "",
     preToken |-> "", preDatetime |-> 0, preSession |-> Session,
     onError |-> FALSE]

\* WebODM.closed
closed == _session = None

\* The condition of WebODM.token under which the cached token is returned.
TokenValid_NoStrict(t, dt, ttl, tok) == (t - dt) =< ttl /\ tok # ""

TokenValid(t, dt, ttl, tok) == (t - dt) < ttl /\ tok # ""

\* The status test of token_refresh.
RefreshAccepted_Any2xx(status) == status \in 200..299

RefreshAccepted(status) == status = 200

\* WebODM.token_refresh on a client with session s, token tok acquired at dt,
\* at time t, the auth endpoint answering a.  The outcome: whether it raised,
\* what it returned, the token and timestamp it leaves, the POSTs it made.
token_refresh_NoTimestamp(s, tok, dt, t, a) ==
    IF s = None
    THEN [raised |-> TRUE, exc |-> "AttributeError", ret |-> "",
          token |-> tok, dt |-> dt, refreshCalls |-> 1, authPosts |-> 0,
          authStatus |-> 0, authToken |-> ""]
    ELSE IF RefreshAccepted(a.status)
    THEN IF ~a.body.json
         THEN [raised |-> TRUE, exc |-> "JSONDecodeError", ret |-> "",
               token |-> tok, dt |-> dt, refreshCalls |-> 1, authPosts |-> 1,
               authStatus |-> a.status, authToken |-> NoKey]
         ELSE IF a.body.token = NoKey
         THEN [raised |-> TRUE, exc |-> "KeyError", ret |-> "",
               token |-> tok, dt |-> dt, refreshCalls |-> 1, authPosts |-> 1,
               authStatus |-> a.status, authToken |-> NoKey]
         ELSE [raised |-> FALSE, exc |-> "", ret |-> a.body.token,
               token |-> a.body.token, dt |-> dt, refreshCalls |-> 1,
               authPosts |-> 1, authStatus |-> a.status,
               authToken |-> a.body.token]
    ELSE [raised |-> FALSE, exc |-> "", ret |-> tok,
          token |-> tok, dt |-> dt, refreshCalls |-> 1, authPosts |-> 1,
          authStatus |-> a.status, authToken |-> ""]

token_refresh(s, tok, dt, t, a) ==
    IF s = None
    THEN \* self._session.post: None has no attribute post
         [raised |-> TRUE, exc |-> "AttributeError", ret |-> "",
          token |-> tok, dt |-> dt, refreshCalls |-> 1, authPosts |-> 0,
          authStatus |-> 0, authToken |-> ""]
    ELSE IF RefreshAccepted(a.status)
    THEN IF ~a.body.json
         THEN \* res.json() on a body that is not JSON
              [raised |-> TRUE, exc |-> "JSONDecodeError", ret |-> "",
               token |-> tok, dt |-> dt, refreshCalls |-> 1, authPosts |-> 1,
               authStatus |-> a.status, authToken |-> NoKey]
         ELSE IF a.body.token = NoKey
         THEN \* res.json()["token"] on an object without the key
              [raised |-> TRUE, exc |-> "KeyError", ret |-> "",
               token |-> tok, dt |-> dt, refreshCalls |-> 1, authPosts |-> 1,
               authStatus |-> a.status, authToken |-> NoKey]
         ELSE [raised |-> FALSE, exc |-> "", ret |-> a.body.token,
               token |-> a.body.token, dt |-> t, refreshCalls |-> 1,
               authPosts |-> 1, authStatus |-> a.status,
               authToken |-> a.body.token]
    ELSE \* the body of any other answer is not read
         [raised |-> FALSE, exc |-> "", ret |-> tok,
          token |-> tok, dt |-> dt, refreshCalls |-> 1, authPosts |-> 1,
          authStatus |-> a.status, authToken |-> ""]

\* The property WebODM.token.
token_AlwaysRefresh(s, tok, dt, ttl, t, a) == token_refresh(s, tok, dt, t, a)

token(s, tok, dt, ttl, t, a) ==
    IF TokenValid(t, dt, ttl, tok)
    THEN [raised |-> FALSE, exc |-> "", ret |-> tok,
          token |-> tok, dt |-> dt, refreshCalls |-> 0, authPosts |-> 0,
          authStatus |-> 0, authToken |-> ""]
    ELSE token_refresh(s, tok, dt, t, a)

\* The value of the Authorization header WebODM.headers builds from a token.
headers(tok) == "JWT " \o tok

---------------------------------------------------------------------------
(* WebODM: the project and task operations                                 *)

\* The auth endpoint answers only the POSTs it gets: a call made while the
\* cached token is valid draws no answer from it.
NoAuthResponse == [status |-> 0, body |-> NotJson]

AuthAnswers ==
    IF _session # None
       /\ ~TokenValid(now, _token_datetime, _token_expiration, _token)
    THEN AuthResponses ELSE {NoAuthResponse}

\* What an operation makes of the response r to its request: whether it
\* raised, and what it returned.
Returned(v) == [raised |-> FALSE, exc |-> "", ret |-> v]
Raised(e) == [raised |-> TRUE, exc |-> e, ret |-> ""]

\* res.json() wrapped in a view: raises when the body is not JSON.
Parsed(r, v) == IF r.body.json THEN Returned(v) ELSE Raised("JSONDecodeError")

create_project_result(r) ==
    IF r.status = 201 THEN Parsed(r, "Project") ELSE Returned("None")

list_projects_result(r) ==
    IF r.status = 200 THEN Parsed(r, "list[Project]") ELSE Returned("None")

read_project_result(r) ==
    IF r.status = 200 THEN Parsed(r, "Project") ELSE Returned("None")

delete_project_result(r) ==
    IF r.status = 204 THEN Returned("True") ELSE Returned("False")

list_project_tasks_result(r) ==
    IF r.status = 200 THEN Parsed(r, "list[Task]") ELSE Returned("None")

read_task_result(r) ==
    IF r.status = 200 THEN Parsed(r, "Task") ELSE Returned("None")

\* res.json()["success"]: the value of the key, whatever it is.
delete_task_result(r) ==
    IF r.status = 200
    THEN IF ~r.body.json THEN Raised("JSONDecodeError")
         ELSE IF r.body.success = NoKey THEN Raised("KeyError")
         ELSE IF r.body.success = "true" THEN Returned("True")
         ELSE Returned("False")
    ELSE Returned("False")

\* The part of the response body an operation reads, for the record.
SuccessRead(op, r) ==
    IF op = "delete_task" /\ r.status = 200
    THEN IF r.body.json THEN r.body.success ELSE "<not json>"
    ELSE ""

\* An operation raised inside a with-block: control leaves the block.
ScopeAfter(raised) == IF raised /\ scope = "with" THEN "unwinding" ELSE scope

\* The caller is in a position to call the client.
Callable == scope \in {"none", "with", "left"}

\* self._session.<method>(endpoint, headers=self.headers, ...) followed by
\* the status test: the shape every project and task operation has.  The
\* attribute self._session.<method> is looked up before self.headers is
\* evaluated, so a closed client raises before any token access.
Call(op, result, a, r) ==
    /\ Callable
    /\ LET pre == [preToken |-> _token, preDatetime |-> _token_datetime,
                   preSession |-> _session]
       IN  IF _session = None
           THEN /\ last' = [Idle EXCEPT !.op = op, !.raised = TRUE,
                               !.exc = "AttributeError",
                               !.preToken = _token,
                               !.preDatetime = _token_datetime,
                               !.preSession = _session]
                /\ scope' = ScopeAfter(TRUE)
                /\ UNCHANGED <<_token, _token_datetime>>
           ELSE LET h == token(_session, _token, _token_datetime,
                               _token_expiration, now, a)
                IN  /\ _token' = h.token
                    /\ _token_datetime' = h.dt
                    /\ IF h.raised
                       THEN /\ last' = [Idle EXCEPT !.op = op, !.raised = TRUE,
                                           !.exc = h.exc,
                                           !.refreshCalls = h.refreshCalls,
                                           !.authPosts = h.authPosts,
                                           !.authStatus = h.authStatus,
                                           !.authToken = h.authToken,
                                           !.preToken = _token,
                                           !.preDatetime = _token_datetime,
                                           !.preSession = _session]
                            /\ scope' = ScopeAfter(TRUE)
                       ELSE /\ last' = [op |-> op, raised |-> result.raised,
                                        exc |-> result.exc, ret |-> result.ret,
                                        refreshCalls |-> h.refreshCalls,
                                        authPosts |-> h.authPosts,
                                        authStatus |-> h.authStatus,
                                        authToken |-> h.authToken,
                                        requests |-> 1,
                                        hdr |-> headers(h.token),
                                        status |-> r.status,
                                        success |-> SuccessRead(op, r),
                                        preToken |-> _token,
                                        preDatetime |-> _token_datetime,
                                        preSession |-> _session,
                                        onError |-> FALSE]
                            /\ scope' = ScopeAfter(result.raised)
    /\ UNCHANGED <<_token_expiration, _session, now, ticks, closeCalled>>
    /\ UNCHANGED viewVars

create_project ==
    \E a \in AuthAnswers, r \in Responses(201, ViewBodies) :
        Call("create_project", create_project_result(r), a, r)

list_projects ==
    \E a \in AuthAnswers, r \in Responses(200, ViewBodies) :
        Call("list_projects", list_projects_result(r), a, r)

read_project ==
    \E a \in AuthAnswers, r \in Responses(200, ViewBodies) :
        Call("read_project", read_project_result(r), a, r)

delete_project ==
    \E a \in AuthAnswers, r \in Responses(204, {NotJson}) :
        Call("delete_project", delete_project_result(r), a, r)

list_project_tasks ==
    \E a \in AuthAnswers, r \in Responses(200, ViewBodies) :
        Call("list_project_tasks", list_project_tasks_result(r), a, r)

read_task ==
    \E a \in AuthAnswers, r \in Responses(200, ViewBodies) :
        Call("read_task", read_task_result(r), a, r)

delete_task ==
    \E a \in AuthAnswers, r \in Responses(200, RemoveBodies) :
        Call("delete_task", delete_task_result(r), a, r)

\* A direct call of token_refresh(), or a read of the token property.
TokenCall(op, h) ==
    /\ Callable
    /\ _token' = h.token
    /\ _token_datetime' = h.dt
    /\ last' = [Idle EXCEPT !.op = op, !.raised = h.raised, !.exc = h.exc,
                   !.ret = h.ret, !.refreshCalls = h.refreshCalls,
                   !.authPosts = h.authPosts, !.authStatus = h.authStatus,
                   !.authToken = h.authToken, !.preToken = _token,
                   !.preDatetime = _token_datetime, !.preSession = _session]
    /\ scope' = ScopeAfter(h.raised)
    /\ UNCHANGED <<_token_expiration, _session, now, ticks, closeCalled>>
    /\ UNCHANGED viewVars

call_token_refresh ==
    \E a \in AuthResponses :
        TokenCall("token_refresh",
                  token_refresh(_session, _token, _token_datetime, now, a))

read_token ==
    \E a \in AuthAnswers :
        TokenCall("token",
                  token(_session, _token, _token_datetime,
                        _token_expiration, now, a))

---------------------------------------------------------------------------
(* WebODM: the session                                                     *)

\* WebODM.close on a client with session s: self._session.close() and then
\* self._session = None.  On a closed client the first statement raises.
close_KeepsSession(s) ==
    IF s = None
    THEN [raised |-> TRUE, exc |-> "AttributeError", session |-> s]
    ELSE [raised |-> FALSE, exc |-> "", session |-> s]

close_result(s) ==
    IF s = None
    THEN [raised |-> TRUE, exc |-> "AttributeError", session |-> s]
    ELSE [raised |-> FALSE, exc |-> "", session |-> None]

close ==
    /\ Callable
    /\ LET c == close_result(_session)
       IN  /\ _session' = c.session
           /\ last' = [Idle EXCEPT !.op = "close", !.raised = c.raised,
                          !.exc = c.exc, !.ret = "None", !.preToken = _token,
                          !.preDatetime = _token_datetime,
                          !.preSession = _session]
           /\ scope' = ScopeAfter(c.raised)
    /\ closeCalled' = TRUE
    /\ UNCHANGED <<_token, _token_datetime, _token_expiration, now, ticks>>
    /\ UNCHANGED viewVars

\* with WebODM(...) as c: the block is entered.
__enter__ ==
    /\ scope = "none"
    /\ scope' = "with"
    /\ last' = [Idle EXCEPT !.op = "__enter__", !.preToken = _token,
                   !.preDatetime = _token_datetime, !.preSession = _session]
    /\ UNCHANGED <<_token, _token_datetime, _token_expiration, _session, now,
                   ticks, closeCalled>>
    /\ UNCHANGED viewVars

\* The block is left, at its end or by an exception raised in it.
__exit__ ==
    /\ scope \in {"with", "unwinding"}
    /\ LET c == close_result(_session)
       IN  /\ _session' = c.session
           /\ last' = [Idle EXCEPT !.op = "__exit__", !.raised = c.raised,
                          !.exc = c.exc, !.ret = "None", !.preToken = _token,
                          !.preDatetime = _token_datetime,
                          !.preSession = _session,
                          !.onError = (scope = "unwinding")]
    /\ scope' = "left"
    /\ closeCalled' = TRUE
    /\ UNCHANGED <<_token, _token_datetime, _token_expiration, now, ticks>>
    /\ UNCHANGED viewVars

\* Time passes between two calls.
Tick ==
    /\ ticks < MaxTicks
    /\ \E d \in Steps : now' = now + d
    /\ ticks' = ticks + 1
    /\ last' = Idle
    /\ UNCHANGED <<_token, _token_datetime, _token_expiration, _session,
                   scope, closeCalled>>
    /\ UNCHANGED viewVars

\* WebODM.__init__ with a valid URL: no token yet, the timestamp is the time
\* of construction, a fresh session.
Init ==
    /\ _token = ""
    /\ _token_expiration \in TokenExpirations
    /\ now = 0
    /\ _token_datetime = now
    /\ _session = Session
    /\ ticks = 0
    /\ scope = "none"
    /\ closeCalled = FALSE
    /\ last = Idle
    /\ _data = <<>>
    /\ got = <<>>

Next ==
    \/ call_token_refresh
    \/ read_token
    \/ create_project
    \/ list_projects
    \/ read_project
    \/ delete_project
    \/ list_project_tasks
    \/ read_task
    \/ delete_task
    \/ close
    \/ __enter__
    \/ __exit__
    \/ Tick

Spec == Init /\ [][Next]_vars

---------------------------------------------------------------------------
(* JSON values and the Python operations the views apply to them           *)

\* A JSON value as Python holds it (and, with the kinds "TaskStatus",
\* "timedelta" and "datetime", a value an accessor returns).  n is a number
\* the value carries, shape tells apart the values of one kind that the
\* accessors treat differently.
Value(kind, n, shape) == [kind |-> kind, n |-> n, shape |-> shape]

Absent == Value("absent", 0, "")              \* the key is not in the mapping
PyNone == Value("null", 0, "")                  \* None
PyBool(b) == Value("bool", IF b THEN 1 ELSE 0, "")
PyInt(n) == Value("int", n, "")
WholeFloat(n) == Value("float", n, "whole")        \* n.0
FractionFloat(n) == Value("float", n, "fraction")  \* n.5
PyStr(shape) == Value("str", 0, shape)          \* "", a timestamp, "0.5", text
PyList(shape, n) == Value("list", n, shape)     \* n elements of a shape
PyDict(shape) == Value("dict", 0, shape)
Timedelta(ms, shape) == Value("timedelta", ms, shape)
Datetime == Value("datetime", 0, "")
Member(code) == Value("TaskStatus", code, "")

\* The outcome of a call: a returned value or a raised exception.
Ok(v) == [raised |-> FALSE, exc |-> "", val |-> v]
Raise(e) == [raised |-> TRUE, exc |-> e, val |-> Absent]

\* try: ... except (ValueError, TypeError): the handler's value instead.
Except(o, v) ==
    IF o.raised /\ o.exc \in {"ValueError", "TypeError"} THEN Ok(v) ELSE o

\* dict.get(key, default) and dict[key] on the mapping d.
Get(d, key, default) == IF d[key] = Absent THEN default ELSE d[key]
Item(d, key) == IF d[key] = Absent THEN Raise("KeyError") ELSE Ok(d[key])

\* class TaskStatus(Enum)
UNKNOWN == 0
QUEUED == 10
RUNNING == 20
FAILED == 30
COMPLETED == 40
CANCELED == 50
TaskStatusValues == {UNKNOWN, QUEUED, RUNNING, FAILED, COMPLETED, CANCELED}

\* TaskStatus(x): the member whose value equals x.  A bool and a whole float
\* equal the integer of the same value; nothing else equals a member's value.
TaskStatusOf(x) ==
    IF x.kind \in {"int", "bool"} \/ (x.kind = "float" /\ x.shape = "whole")
    THEN IF x.n \in TaskStatusValues THEN Ok(Member(x.n)) ELSE Raise("ValueError")
    ELSE Raise("ValueError")

\* timedelta(milliseconds=x), for the numbers a mapping holds here (no NaN,
\* nothing beyond the range of a timedelta).
TimedeltaOf(x) ==
    IF x.kind \in {"int", "bool", "float"}
    THEN Ok(Timedelta(x.n, ""))
    ELSE Raise("TypeError")

\* float(x)
FloatOf(x) ==
    CASE x.kind \in {"int", "bool"} -> Ok(WholeFloat(x.n))
      [] x.kind = "float" -> Ok(x)
      [] x.kind = "str" ->
            IF x.shape = "number" THEN Ok(FractionFloat(0)) ELSE Raise("ValueError")
      [] OTHER -> Raise("TypeError")

\* datetime.strptime(x, "%Y-%m-%dT%H:%M:%S.%fZ").replace(tzinfo=timezone.utc)
StrptimeOf(x) ==
    IF x.kind = "str"
    THEN IF x.shape = "timestamp" THEN Ok(Datetime) ELSE Raise("ValueError")
    ELSE Raise("TypeError")

\* len(x)
LenOf(x) ==
    CASE x.kind = "list" -> Ok(PyInt(x.n))
      [] x.kind = "str" -> Ok(PyInt(IF x.shape = "empty" THEN 0 ELSE 4))
      [] x.kind = "dict" -> Ok(PyInt(IF x.shape = "empty" THEN 0 ELSE 3))
      [] OTHER -> Raise("TypeError")

\* The permissions a list of shape "permissions" holds.
Held == {"add", "view"}

\* perm in x
Contains(x, perm) ==
    CASE x.kind = "list" -> Ok(PyBool(x.shape = "permissions" /\ perm \in Held))
      [] x.kind \in {"str", "dict"} -> Ok(PyBool(FALSE))
      [] OTHER -> Raise("TypeError")

\* for task in x: yield task
Iterate(x) ==
    IF x.kind \in {"list", "str", "dict"} THEN Ok(x) ELSE Raise("TypeError")

\* x.get(key): only a dict has the method.
GetOf(x, key) ==
    IF x.kind # "dict" THEN Raise("AttributeError")
    ELSE IF x.shape = "empty" THEN Ok(PyNone)
    ELSE IF key \in {"area", "gsd"} THEN Ok(FractionFloat(1))
    ELSE Ok(PyNone)

\* utils.odmpreset_to_dict(l): {i["name"]: i["value"] for i in l}
odmpreset_to_dict(l) ==
    CASE l.kind = "list" ->
            IF l.n = 0 THEN Ok(PyDict("empty"))
            ELSE IF l.shape = "presets" THEN Ok(PyDict("options"))
            ELSE Raise("TypeError")          \* i["name"] on a str element
      [] l.kind = "dict" ->
            IF l.shape = "empty" THEN Ok(PyDict("empty")) ELSE Raise("TypeError")
      [] l.kind = "str" ->
            IF l.shape = "empty" THEN Ok(PyDict("empty")) ELSE Raise("TypeError")
      [] OTHER -> Raise("TypeError")         \* not iterable

---------------------------------------------------------------------------
(* Task                                                                    *)

Task_name(d) == Ok(Get(d, "name", PyStr("empty")))

Task_processing_time(d) ==
    Except(TimedeltaOf(Get(d, "processing_time", PyInt(0))), Timedelta(0, ""))

Task_status(d) ==
    Except(TaskStatusOf(Get(d, "status", PyInt(0))), Member(UNKNOWN))

Task_last_error(d) == Ok(Get(d, "last_error", PyStr("empty")))

Task_options(d) == odmpreset_to_dict(Get(d, "options", PyDict("empty")))

Task_statistics(d) == Ok(Get(d, "statistics", PyDict("empty")))

Task_area(d) == GetOf(Task_statistics(d).val, "area")

Task_gsd(d) == GetOf(Task_statistics(d).val, "gsd")

\* pc = self.statistics.get("pointcloud", {}); pc.get("points")
Task_points(d) ==
    LET st == Task_statistics(d).val
    IN  IF st.kind # "dict" THEN Raise("AttributeError")
        ELSE IF st.shape = "statistics" THEN Ok(PyInt(1000))
        ELSE IF st.shape = "null pointcloud" THEN Raise("AttributeError")
        ELSE Ok(PyNone)

Task_available_assets(d) == Ok(Get(d, "available_assets", PyList("strings", 0)))

Task_tags(d) == Ok(Get(d, "tags", PyList("strings", 0)))

Task_date(d) == Except(StrptimeOf(Get(d, "created_at", PyNone)), PyNone)

Task_finished_NotFailed(d) ==
    Ok(PyBool(Task_status(d).val \in {Member(CANCELED), Member(COMPLETED)}))

Task_finished(d) ==
    Ok(PyBool(Task_status(d).val \in
                {Member(CANCELED), Member(COMPLETED), Member(FAILED)}))

\* now - (self.date + self.processing_time): None + timedelta is a TypeError.
Task_age(d) ==
    IF Task_finished(d).val = PyBool(FALSE) THEN Ok(Timedelta(0, ""))
    ELSE Except(IF Task_date(d).val = PyNone THEN Raise("TypeError")
                ELSE Ok(Timedelta(Task_processing_time(d).val.n, "since")),
                Timedelta(0, ""))

Task_upload_progress(d) == FloatOf(Get(d, "upload_progress", PyInt(0)))

Task_resize_progress(d) == FloatOf(Get(d, "resize_progress", PyInt(0)))

Task_running_progress(d) == FloatOf(Get(d, "running_progress", PyInt(0)))

Task_partial(d) == Ok(Get(d, "partial", PyBool(FALSE)))

---------------------------------------------------------------------------
(* Project                                                                 *)

Project_description(d) == Ok(Get(d, "description", PyNone))

Project_date(d) == Except(StrptimeOf(Get(d, "created_at", PyNone)), PyNone)

Project_task_list(d) == Item(d, "tasks")

Project_task_count(d) ==
    IF Item(d, "tasks").raised THEN Item(d, "tasks") ELSE LenOf(d["tasks"])

Project_can(d, perm) ==
    IF Item(d, "permissions").raised THEN Item(d, "permissions")
    ELSE Contains(d["permissions"], perm)

Project_can_add(d) == Project_can(d, "add")
Project_can_delete(d) == Project_can(d, "delete")
Project_can_change(d) == Project_can(d, "change")
Project_can_view(d) == Project_can(d, "view")

\* The iterator tasks() returns, run to its end.
Project_tasks(d) ==
    IF Item(d, "tasks").raised THEN Item(d, "tasks") ELSE Iterate(d["tasks"])

---------------------------------------------------------------------------
(* The views: mappings and accessor calls                                  *)

\* At most MaxMalformed fields of a mapping are missing or malformed.
MaxMalformed == 1

Fields ==
    {"name", "processing_time", "status", "last_error", "options",
     "statistics", "available_assets", "tags", "created_at",
     "upload_progress", "resize_progress", "running_progress", "partial",
     "description", "tasks", "permissions"}

\* A mapping as the service sends it: a completed task's and a project's
\* fields, each of the type the accessors expect.
WellFormed ==
    [f \in Fields |->
        CASE f = "name" -> PyStr("text")
          [] f = "processing_time" -> PyInt(1500)
          [] f = "status" -> PyInt(COMPLETED)
          [] f = "last_error" -> PyStr("empty")
          [] f = "options" -> PyList("presets", 2)
          [] f = "statistics" -> PyDict("statistics")
          [] f = "available_assets" -> PyList("strings", 2)
          [] f = "tags" -> PyList("strings", 1)
          [] f = "created_at" -> PyStr("timestamp")
          [] f = "upload_progress" -> WholeFloat(1)
          [] f = "resize_progress" -> WholeFloat(1)
          [] f = "running_progress" -> FractionFloat(0)
          [] f = "partial" -> PyBool(FALSE)
          [] f = "description" -> PyStr("text")
          [] f = "tasks" -> PyList("strings", 2)
          [] f = "permissions" -> PyList("permissions", 2)]

\* What a field may hold instead: nothing, null, or a value of another type;
\* for status every code, an unknown integer and numbers that are not ints.
Malformed ==
    {Absent, PyNone, PyStr("text"), PyInt(7), PyList("strings", 1),
     PyDict("other")}

Candidates(f) ==
    CASE f = "status" ->
            Malformed \cup {PyInt(c) : c \in TaskStatusValues}
            \cup {PyInt(99), WholeFloat(QUEUED), FractionFloat(QUEUED),
                  PyBool(TRUE), PyBool(FALSE)}
      [] f = "statistics" ->
            Malformed \cup {PyDict("empty"), PyDict("null pointcloud")}
      [] f = "options" -> Malformed \cup {PyList("strings", 0), PyStr("empty")}
      [] f \in {"upload_progress", "resize_progress", "running_progress"} ->
            Malformed \cup {PyStr("number")}
      [] OTHER -> Malformed

\* The mappings that differ from WellFormed in at most k fields.
RECURSIVE Mappings(_)
Mappings(k) ==
    IF k = 0 THEN {WellFormed}
    ELSE Mappings(k - 1)
         \cup UNION {{[d EXCEPT ![f] = v] : v \in Candidates(f)} :
                       d \in Mappings(k - 1), f \in Fields}

NoAccess == [accessor |-> "none", raised |-> FALSE, exc |-> "", val |-> Absent]

\* An accessor is called on the view; the mapping is never written.
Access(accessor, o) ==
    /\ got' = [accessor |-> accessor, raised |-> o.raised, exc |-> o.exc,
               val |-> o.val]
    /\ UNCHANGED _data
    /\ UNCHANGED clientVars

read_Task_name == Access("Task.name", Task_name(_data))

read_Task_processing_time == Access("Task.processing_time", Task_processing_time(_data))

read_Task_status == Access("Task.status", Task_status(_data))

read_Task_last_error == Access("Task.last_error", Task_last_error(_data))

read_Task_options == Access("Task.options", Task_options(_data))

read_Task_statistics == Access("Task.statistics", Task_statistics(_data))

read_Task_area == Access("Task.area", Task_area(_data))

read_Task_gsd == Access("Task.gsd", Task_gsd(_data))

read_Task_points == Access("Task.points", Task_points(_data))

read_Task_available_assets == Access("Task.available_assets", Task_available_assets(_data))

read_Task_tags == Access("Task.tags", Task_tags(_data))

read_Task_date == Access("Task.date", Task_date(_data))

read_Task_age == Access("Task.age", Task_age(_data))

read_Task_upload_progress == Access("Task.upload_progress", Task_upload_progress(_data))

read_Task_resize_progress == Access("Task.resize_progress", Task_resize_progress(_data))

read_Task_running_progress == Access("Task.running_progress", Task_running_progress(_data))

read_Task_partial == Access("Task.partial", Task_partial(_data))

read_Task_finished == Access("Task.finished", Task_finished(_data))

read_Project_description == Access("Project.description", Project_description(_data))

read_Project_date == Access("Project.date", Project_date(_data))

read_Project_task_list == Access("Project.task_list", Project_task_list(_data))

read_Project_task_count == Access("Project.task_count", Project_task_count(_data))

read_Project_can_add == Access("Project.can_add", Project_can_add(_data))

read_Project_can_delete == Access("Project.can_delete", Project_can_delete(_data))

read_Project_can_change == Access("Project.can_change", Project_can_change(_data))

read_Project_can_view == Access("Project.can_view", Project_can_view(_data))

read_Project_tasks == Access("Project.tasks", Project_tasks(_data))

\* Task(data) or Project(data) over a mapping; the client is not involved.
InitView ==
    /\ _data \in Mappings(MaxMalformed)
    /\ got = NoAccess
    /\ _token = ""
    /\ _token_expiration = DefaultTokenExpiration
    /\ now = 0
    /\ _token_datetime = now
    /\ _session = Session
    /\ ticks = 0
    /\ scope = "none"
    /\ closeCalled = FALSE
    /\ last = Idle

NextView ==
    \/ read_Task_name
    \/ read_Task_processing_time
    \/ read_Task_status
    \/ read_Task_last_error
    \/ read_Task_options
    \/ read_Task_statistics
    \/ read_Task_area
    \/ read_Task_gsd
    \/ read_Task_points
    \/ read_Task_available_assets
    \/ read_Task_tags
    \/ read_Task_date
    \/ read_Task_age
    \/ read_Task_upload_progress
    \/ read_Task_resize_progress
    \/ read_Task_running_progress
    \/ read_Task_partial
    \/ read_Task_finished
    \/ read_Project_description
    \/ read_Project_date
    \/ read_Project_task_list
    \/ read_Project_task_count
    \/ read_Project_can_add
    \/ read_Project_can_delete
    \/ read_Project_can_change
    \/ read_Project_can_view
    \/ read_Project_tasks

SpecView == InitView /\ [][NextView]_vars

---------------------------------------------------------------------------
(* Properties of the client                                                *)

RequestOps ==
    {"create_project", "list_projects", "read_project", "delete_project",
     "list_project_tasks", "read_task", "delete_task"}

\* The cached token of the state before the last call was non-empty and
\* younger than the TTL at the time of the call.
CachedTokenWasValid ==
    last.preToken # "" /\ now - last.preDatetime < _token_expiration

\* The expected success code of each operation.
SuccessCode(op) ==
    CASE op = "create_project" -> 201
      [] op = "delete_project" -> 204
      [] OTHER -> 200

\* C1 as stated: in any reachable state a read of `token` returns the cached
\* token without a request when the cached token is non-empty and younger
\* than the TTL, and otherwise triggers exactly one token_refresh(), that is
\* exactly one POST to the auth endpoint.
C1_TokenAccessAnyState ==
    last.op = "token" =>
        IF CachedTokenWasValid
        THEN /\ ~last.raised
             /\ last.ret = last.preToken
             /\ last.refreshCalls = 0
             /\ last.authPosts = 0
        ELSE /\ last.refreshCalls = 1
             /\ last.authPosts = 1

\* C1 amended: the same, where the one POST is made on an open client; on a
\* closed client the one token_refresh() raises before any POST.
C1_TokenAccess ==
    last.op = "token" =>
        IF CachedTokenWasValid
        THEN /\ ~last.raised
             /\ last.ret = last.preToken
             /\ last.refreshCalls = 0
             /\ last.authPosts = 0
        ELSE /\ last.refreshCalls = 1
             /\ last.authPosts = (IF last.preSession = Session THEN 1 ELSE 0)

\* A token acquired under the default TTL is read 21601 s later, and the
\* read makes one POST.
C1_Witness ==
    /\ last.op = "token"
    /\ _token_expiration = DefaultTokenExpiration
    /\ last.preToken # ""
    /\ now - last.preDatetime = 21601
    /\ last.preSession = Session
    /\ last.authPosts = 1

\* C2 as stated: the Authorization header of every project or task request
\* carries a token that is non-empty and was acquired less than TTL seconds
\* before the request, whatever the auth endpoint answered.
C2_HeaderTokenAlwaysValid ==
    last.requests = 1 =>
        /\ last.hdr = "JWT " \o _token
        /\ _token # ""
        /\ now - _token_datetime < _token_expiration

\* C2 amended: the header carries the token stored after the token access
\* that precedes the request.  That token is non-empty and younger than the
\* TTL when the cached token was valid or the refresh was answered 200; when
\* the refresh was answered otherwise, the request carries the unchanged
\* stored token.
C2_HeaderToken ==
    last.requests = 1 =>
        /\ last.hdr = "JWT " \o _token
        /\ (CachedTokenWasValid \/ (last.authPosts = 1 /\ last.authStatus = 200))
              => /\ _token # ""
                 /\ now - _token_datetime < _token_expiration
        /\ (~CachedTokenWasValid /\ last.authStatus # 200)
              => /\ last.authPosts = 1
                 /\ _token = last.preToken
                 /\ _token_datetime = last.preDatetime

\* A request sent after a refused refresh, carrying an expired token.
C2_Witness ==
    /\ last.requests = 1
    /\ last.authPosts = 1
    /\ last.authStatus = 403
    /\ last.preToken # ""
    /\ last.hdr = "JWT " \o last.preToken

\* C3 as stated: each operation on an open client makes exactly one HTTP
\* request in total, whether the token is empty, fresh or expired.
C3_OneRequestInTotal ==
    (last.op \in RequestOps /\ last.preSession = Session) =>
        last.authPosts + last.requests = 1

\* C3 amended: each operation on an open client makes exactly one project or
\* task request, preceded by one POST to the auth endpoint exactly when the
\* cached token is empty or expired; the project or task request is left out
\* only when that POST is answered 200 without a token, and the call raises.
\* On a closed client no request is made.
C3_RequestsPerCall ==
    last.op \in RequestOps =>
        IF last.preSession = Session
        THEN /\ last.authPosts = (IF CachedTokenWasValid THEN 0 ELSE 1)
             /\ last.refreshCalls = last.authPosts
             /\ last.requests =
                   (IF last.authPosts = 1 /\ last.authStatus = 200
                       /\ last.authToken = NoKey
                    THEN 0 ELSE 1)
        ELSE last.authPosts = 0 /\ last.requests = 0

\* An operation called with an expired token makes two requests.
C3_Witness ==
    /\ last.op \in RequestOps
    /\ last.preToken # ""
    /\ last.authPosts = 1
    /\ last.requests = 1

C5_NeverRaises ==
    (last.op \in RequestOps \ {"delete_task"} /\ last.preSession = Session) =>
        /\ ~last.raised
        /\ last.status # SuccessCode(last.op) => last.ret \in {"None", "False"}
        /\ last.op = "delete_project"
              => (last.ret = "True" <=> last.status = 204)

\* C6 as stated: once the removal request is answered (with a JSON object
\* where the body is read), delete_task returns True exactly on 200 with a
\* true `success` flag and False in every other case, without raising.
C6_DeleteTask ==
    (last.op = "delete_task" /\ last.requests = 1
     /\ last.success # "<not json>") =>
        /\ ~last.raised
        /\ last.ret \in {"True", "False"}
        /\ last.ret = "True" <=> (last.status = 200 /\ last.success = "true")

\* C7: `closed` is false until the first close() and true ever after, and
\* true once a with-block has been left, however it was left.
C7_SessionLifecycle ==
    /\ closed <=> closeCalled
    /\ scope = "left" => closed
    /\ last.op \in {"close", "__exit__"} => closed

\* A with-block left by an exception raised in its body.
C7_Witness ==
    /\ last.op = "__exit__"
    /\ last.onError
    /\ scope = "left"
    /\ last.preSession = Session
    /\ closed

\* C8 as stated: close() and the scope exit return normally in every state,
\* open or closed, and leave `closed` true.
C8_CloseNeverRaises ==
    last.op \in {"close", "__exit__"} => (~last.raised /\ closed)

---------------------------------------------------------------------------
(* Properties of the views                                                 *)

\* The field an accessor reads first.
Source(accessor) ==
    CASE accessor \in {"Task.area", "Task.gsd", "Task.points"} -> "statistics"
      [] accessor \in {"Task.date", "Project.date", "Task.age"} -> "created_at"
      [] accessor = "Task.finished" -> "status"
      [] accessor \in {"Project.task_list", "Project.task_count",
                       "Project.tasks"} -> "tasks"
      [] accessor \in {"Project.can_add", "Project.can_delete",
                       "Project.can_change", "Project.can_view"} -> "permissions"
      [] accessor = "Task.name" -> "name"
      [] accessor = "Task.processing_time" -> "processing_time"
      [] accessor = "Task.status" -> "status"
      [] accessor = "Task.last_error" -> "last_error"
      [] accessor = "Task.options" -> "options"
      [] accessor = "Task.statistics" -> "statistics"
      [] accessor = "Task.available_assets" -> "available_assets"
      [] accessor = "Task.tags" -> "tags"
      [] accessor = "Task.upload_progress" -> "upload_progress"
      [] accessor = "Task.resize_progress" -> "resize_progress"
      [] accessor = "Task.running_progress" -> "running_progress"
      [] accessor = "Task.partial" -> "partial"
      [] OTHER -> "description"

\* The value an accessor falls back to.
Default(accessor) ==
    CASE accessor \in {"Task.name", "Task.last_error"} -> PyStr("empty")
      [] accessor \in {"Task.processing_time", "Task.age"} -> Timedelta(0, "")
      [] accessor = "Task.status" -> Member(UNKNOWN)
      [] accessor \in {"Task.options", "Task.statistics"} -> PyDict("empty")
      [] accessor \in {"Task.available_assets", "Task.tags",
                       "Project.task_list", "Project.tasks"} ->
            PyList("strings", 0)
      [] accessor \in {"Task.upload_progress", "Task.resize_progress",
                       "Task.running_progress"} -> WholeFloat(0)
      [] accessor \in {"Task.partial", "Task.finished", "Project.can_add",
                       "Project.can_delete", "Project.can_change",
                       "Project.can_view"} -> PyBool(FALSE)
      [] accessor = "Project.task_count" -> PyInt(0)
      [] OTHER -> PyNone

\* C9 as stated: over a mapping with missing or malformed fields no accessor
\* raises, and an accessor whose field is missing returns its default.
C9_AccessorsNeverRaise ==
    got.accessor # "none" =>
        /\ ~got.raised
        /\ _data[Source(got.accessor)] = Absent
              => got.val = Default(got.accessor)

\* The status a value of the `status` field stands for: the member of that
\* code when the value is a number equal to a known code, UNKNOWN otherwise.
KnownCodes == {QUEUED, RUNNING, FAILED, COMPLETED, CANCELED}

StatusFor(x) ==
    IF x.kind = "int" /\ x.n \in KnownCodes THEN Member(x.n)
    ELSE IF x.kind = "float" /\ x.shape = "whole" /\ x.n \in KnownCodes
    THEN Member(x.n)
    ELSE Member(UNKNOWN)

\* C10: `status` returns the member of a known code and UNKNOWN for anything
\* else, without raising; `finished` is true exactly when that member is
\* CANCELED, COMPLETED or FAILED.
C10_StatusAndFinished ==
    /\ got.accessor = "Task.status" =>
          /\ ~got.raised
          /\ got.val = StatusFor(_data["status"])
    /\ got.accessor = "Task.finished" =>
          /\ ~got.raised
          /\ got.val = PyBool(StatusFor(_data["status"]).n
                                \in {CANCELED, COMPLETED, FAILED})

\* `finished` is read on a failed task.
C10_Witness ==
    /\ got.accessor = "Task.finished"
    /\ _data["status"] = PyInt(FAILED)
    /\ got.val = PyBool(TRUE)

====
